---- MODULE Spec2Model ----
(***************************************************************************)
(* Model of the shopping-cart manager of src/main.py: the Product entity,  *)
(* the CartItem line and the ShoppingCart facade (catalog, cart and the    *)
(* identifier counter), together with the checkout handler of the GUI.     *)
(*                                                                         *)
(* Product objects live in a heap (a sequence of records); the catalog and *)
(* the cart lines hold references (heap indices) to them, as the Python    *)
(* dictionaries hold references to the same Product object.  Prices are    *)
(* modelled as integers.                                                   *)
(***************************************************************************)
EXTENDS Integers, Sequences, FiniteSets, TLC

VARIABLES heap, catalog, cart, next_id, op, initial

vars == <<heap, catalog, cart, next_id, op, initial>>

(***************************************************************************)
(* Bounds of the model and the inputs the calls are drawn from.            *)
(***************************************************************************)
MaxProducts == 2
MaxStock == 3
MaxNeg == 1
MaxQty == 2

Names == {"Pen", "Book"}
Prices == {0, 10}
QtyInputs == (0 - MaxNeg)..MaxQty

(***************************************************************************)
(* Product identifiers: f"PID{n:03d}".                                     *)
(***************************************************************************)
DigitChar == <<"0", "1", "2", "3", "4", "5", "6", "7", "8", "9">>

RECURSIVE Decimal(_)
Decimal(n) ==
    IF n < 10 THEN DigitChar[n + 1]
    ELSE Decimal(n \div 10) \o DigitChar[(n % 10) + 1]

RECURSIVE ZeroPad(_, _)
ZeroPad(s, width) == IF Len(s) >= width THEN s ELSE ZeroPad("0" \o s, width)

\* the identifier without the zero padding
FormatProductId_unpadded(n) == "PID" \o Decimal(n)

FormatProductId(n) == "PID" \o ZeroPad(Decimal(n), 3)

\* identifiers a caller may pass: every one the counter can generate within
\* the bound, and one that is never generated
PidInputs == {FormatProductId(n) : n \in 1..MaxProducts} \cup {"NOPE"}

(***************************************************************************)
(* Product                                                                 *)
(***************************************************************************)
Product(pid, name, price, quantity) ==
    [product_id |-> pid, name |-> name, price |-> price,
     quantity_available |-> quantity]

\* decrease_quantity without the test against the available stock
decrease_quantity_ok_unlimited(p, amount) == 0 < amount

\* decrease_quantity accepting a zero or negative amount
decrease_quantity_ok_unsigned(p, amount) == amount <= p.quantity_available

\* the return value of Product.decrease_quantity
decrease_quantity_ok(p, amount) ==
    0 < amount /\ amount <= p.quantity_available

\* decrease_quantity deducting before it tests
decrease_quantity_unchecked(p, amount) ==
    [p EXCEPT !.quantity_available = @ - amount]

\* the Product after Product.decrease_quantity
decrease_quantity(p, amount) ==
    IF decrease_quantity_ok(p, amount)
    THEN [p EXCEPT !.quantity_available = @ - amount]
    ELSE p

\* increase_quantity that restores nothing
increase_quantity_lost(p, amount) == p

\* increase_quantity restocking a single unit
increase_quantity_one(p, amount) ==
    [p EXCEPT !.quantity_available = @ + 1]

increase_quantity(p, amount) ==
    [p EXCEPT !.quantity_available = @ + amount]

(***************************************************************************)
(* CartItem                                                                *)
(***************************************************************************)
\* a CartItem created with a quantity of one
CartItem_single(product, quantity) == [product |-> product, quantity |-> 1]

CartItem(product, quantity) == [product |-> product, quantity |-> quantity]

\* subtotal leaving the quantity out
subtotal_unit_price(h, item) == h[item.product].price

subtotal(h, item) == h[item.product].price * item.quantity

(***************************************************************************)
(* ShoppingCart                                                            *)
(***************************************************************************)
RECURSIVE SumSubtotals(_, _, _)
SumSubtotals(h, c, pids) ==
    IF pids = {} THEN 0
    ELSE LET pid == CHOOSE x \in pids : TRUE
         IN  subtotal(h, c[pid]) + SumSubtotals(h, c, pids \ {pid})

get_cart_total(h, c) == SumSubtotals(h, c, DOMAIN c)

EmptyMap == [x \in {} |-> 0]

Put(f, k, v) == [x \in DOMAIN f \cup {k} |-> IF x = k THEN v ELSE f[x]]

\* a deletion that empties the dictionary
Del_all(f, k) == [x \in {} |-> 0]

\* a deletion that leaves the entry in place
Del_kept(f, k) == f

Del(f, k) == [x \in DOMAIN f \ {k} |-> f[x]]

\* the heap after the Product at ref is replaced by p
Store(h, ref, p) == [h EXCEPT ![ref] = p]

Call(name, pid, qty, result) ==
    [name |-> name, pid |-> pid, qty |-> qty, result |-> result]

\* a call together with the stock and the cart it started from
CallFrom(name, pid, qty, result, h, c) ==
    [name |-> name, pid |-> pid, qty |-> qty, result |-> result,
     before |-> [heap |-> h, cart |-> c]]

\* a call of add_product, its arguments and the identifier it returns
CallAdd(pid, name, price, qty) ==
    [name |-> "add_product", pid |-> pid, qty |-> qty, result |-> pid,
     product_name |-> name, price |-> price]

NoOp == [name |-> "init", pid |-> "", qty |-> 0, result |-> 0]

Init ==
    /\ heap = <<>>
    /\ catalog = EmptyMap
    /\ cart = EmptyMap
    /\ next_id = 1
    /\ op = NoOp
    /\ initial = <<>>

add_product(name, price, qty) ==
    /\ next_id <= MaxProducts
    /\ LET pid == FormatProductId(next_id)
           ref == Len(heap) + 1
       IN  /\ heap' = Append(heap, Product(pid, name, price, qty))
           /\ catalog' = Put(catalog, pid, ref)
           /\ next_id' = next_id + 1
           /\ initial' = Append(initial, qty)
           /\ op' = CallAdd(pid, name, price, qty)
    /\ UNCHANGED cart

\* add_to_cart creating the line on the first Product of the catalog
add_line_first(c, pid, product, qty) ==
    IF pid \in DOMAIN c
    THEN [c EXCEPT ![pid].quantity = @ + qty]
    ELSE Put(c, pid, CartItem(1, qty))

\* add_to_cart overwriting the line instead of adding to it
add_line_replace(c, pid, product, qty) == Put(c, pid, CartItem(product, qty))

\* the cart after add_to_cart has reserved qty of the Product at ref product
add_line(c, pid, product, qty) ==
    IF pid \in DOMAIN c
    THEN [c EXCEPT ![pid].quantity = @ + qty]
    ELSE Put(c, pid, CartItem(product, qty))

add_to_cart(pid, qty) ==
    /\ IF pid \in DOMAIN catalog
       THEN LET product == catalog[pid]
            IN  /\ heap' = Store(heap, product,
                                 decrease_quantity(heap[product], qty))
                /\ IF decrease_quantity_ok(heap[product], qty)
                   THEN /\ cart' = add_line(cart, pid, product, qty)
                        /\ op' = CallFrom("add_to_cart", pid, qty, TRUE,
                                          heap, cart)
                   ELSE /\ UNCHANGED cart
                        /\ op' = Call("add_to_cart", pid, qty, FALSE)
       ELSE /\ UNCHANGED <<heap, cart>>
            /\ op' = Call("add_to_cart", pid, qty, FALSE)
    /\ UNCHANGED <<catalog, next_id, initial>>

\* the stock test letting through an increase one above the stock
enough_stock_off_by_one(diff, available_qty) == diff <= available_qty + 1

\* the stock test of update_cart_quantity for an increase by diff
enough_stock(diff, available_qty) == diff <= available_qty

update_cart_quantity(pid, new_qty) ==
    /\ IF pid \in DOMAIN cart
       THEN LET item == cart[pid]
                current_qty == item.quantity
                available_qty == heap[item.product].quantity_available
                diff == new_qty - current_qty
            IN  IF diff = 0
                THEN /\ UNCHANGED <<heap, cart>>
                     /\ op' = Call("update_cart_quantity", pid, new_qty, TRUE)
                ELSE IF diff > 0
                THEN IF enough_stock(diff, available_qty)
                     THEN /\ heap' = Store(heap, item.product,
                                  decrease_quantity(heap[item.product], diff))
                          /\ cart' = [cart EXCEPT ![pid].quantity = new_qty]
                          /\ op' = Call("update_cart_quantity", pid, new_qty,
                                        TRUE)
                     ELSE /\ UNCHANGED <<heap, cart>>
                          /\ op' = Call("update_cart_quantity", pid, new_qty,
                                        FALSE)
                ELSE /\ \/ available_qty - diff <= MaxStock
                        \/ available_qty - diff <= initial[item.product]
                     /\ heap' = Store(heap, item.product,
                                  increase_quantity(heap[item.product], -diff))
                     /\ cart' = [cart EXCEPT ![pid].quantity = new_qty]
                     /\ op' = Call("update_cart_quantity", pid, new_qty, TRUE)
       ELSE /\ UNCHANGED <<heap, cart>>
            /\ op' = Call("update_cart_quantity", pid, new_qty, FALSE)
    /\ UNCHANGED <<catalog, next_id, initial>>

remove_from_cart(pid) ==
    /\ IF pid \in DOMAIN cart
       THEN /\ heap' = Store(heap, catalog[pid],
                    increase_quantity(heap[catalog[pid]], cart[pid].quantity))
            /\ cart' = Del(cart, pid)
            /\ op' = Call("remove_from_cart", pid, 0, TRUE)
       ELSE /\ UNCHANGED <<heap, cart>>
            /\ op' = Call("remove_from_cart", pid, 0, FALSE)
    /\ UNCHANGED <<catalog, next_id, initial>>

\* a call of get_cart_total: a read whose result is recorded
cart_total ==
    /\ op' = Call("get_cart_total", "", 0, get_cart_total(heap, cart))
    /\ UNCHANGED <<heap, catalog, cart, next_id, initial>>

\* clear_cart returning the reserved quantities to the stock
RECURSIVE Restock(_, _, _)
Restock(h, c, pids) ==
    IF pids = {} THEN h
    ELSE LET pid == CHOOSE x \in pids : TRUE
         IN  Restock(Store(h, c[pid].product,
                           increase_quantity(h[c[pid].product],
                                             c[pid].quantity)),
                     c, pids \ {pid})

clear_cart_restocking ==
    /\ cart' = EmptyMap
    /\ heap' = Restock(heap, cart, DOMAIN cart)
    /\ op' = Call("clear_cart", "", 0, 0)
    /\ UNCHANGED <<catalog, next_id, initial>>

clear_cart ==
    /\ cart' = EmptyMap
    /\ op' = Call("clear_cart", "", 0, 0)
    /\ UNCHANGED <<heap, catalog, next_id, initial>>

\* checkout testing the cart for lines instead of the total for zero
checkout_when_lines ==
    LET total == get_cart_total(heap, cart)
    IN  /\ IF DOMAIN cart = {}
           THEN /\ UNCHANGED cart
                /\ op' = Call("checkout", "", total, "Cart is empty.")
           ELSE /\ cart' = EmptyMap
                /\ op' = Call("checkout", "", total, "Payment")
        /\ UNCHANGED <<heap, catalog, next_id, initial>>

\* ShoppingCartApp.checkout: qty records the total, result the dialog shown
checkout ==
    LET total == get_cart_total(heap, cart)
    IN  /\ IF total = 0
           THEN /\ UNCHANGED cart
                /\ op' = Call("checkout", "", total, "Cart is empty.")
           ELSE /\ cart' = EmptyMap
                /\ op' = Call("checkout", "", total, "Payment")
        /\ UNCHANGED <<heap, catalog, next_id, initial>>

AddProduct ==
    \E name \in Names, price \in Prices, qty \in QtyInputs :
        add_product(name, price, qty)

AddToCart == \E pid \in PidInputs, qty \in QtyInputs : add_to_cart(pid, qty)

UpdateCartQuantity ==
    \E pid \in PidInputs, new_qty \in QtyInputs :
        update_cart_quantity(pid, new_qty)

RemoveFromCart == \E pid \in PidInputs : remove_from_cart(pid)

Next ==
    \/ AddProduct
    \/ AddToCart
    \/ UpdateCartQuantity
    \/ RemoveFromCart
    \/ cart_total
    \/ clear_cart
    \/ checkout

Spec == Init /\ [][Next]_vars

\* the calls of the stock-conservation property: no clear_cart, no checkout
NextNoClear ==
    \/ AddProduct
    \/ AddToCart
    \/ UpdateCartQuantity
    \/ RemoveFromCart

SpecNoClear == Init /\ [][NextNoClear]_vars

\* the calls of the scenario of the specification, with the products and
\* the quantities it uses
ScenarioProducts ==
    {[name |-> "Pen", price |-> 10, qty |-> 5],
     [name |-> "Book", price |-> 50, qty |-> 2]}

ScenarioQty == {1, 2, 3, 5}

NextScenario ==
    \/ \E p \in ScenarioProducts : add_product(p.name, p.price, p.qty)
    \/ \E pid \in PidInputs, qty \in ScenarioQty : add_to_cart(pid, qty)
    \/ \E pid \in PidInputs, new_qty \in ScenarioQty :
           update_cart_quantity(pid, new_qty)
    \/ \E pid \in PidInputs : remove_from_cart(pid)
    \/ checkout

SpecScenario == Init /\ [][NextScenario]_vars

(***************************************************************************)
(* Properties                                                              *)
(***************************************************************************)
StockOf(h, ref) == h[ref].quantity_available

LineQty(c, pid) == IF pid \in DOMAIN c THEN c[pid].quantity ELSE 0

Succeeded(o, name) == o.name = name /\ o.result = TRUE

Failed(o, name) == o.name = name /\ o.result = FALSE

\* C1: without clear_cart, the available stock of every product plus the
\* quantity of its cart line (0 without a line) is the stock it was created
\* with, in every reachable state.
C1_StockConservation ==
    \A pid \in DOMAIN catalog :
        StockOf(heap, catalog[pid]) + LineQty(cart, pid) = initial[catalog[pid]]

\* C1 witness: after a successful update a product has a line, part of its
\* stock reserved
C1_Witness ==
    /\ Succeeded(op, "update_cart_quantity")
    /\ op.pid \in DOMAIN cart
    /\ cart[op.pid].quantity > 0
    /\ StockOf(heap, catalog[op.pid]) > 0

\* C2: a product created with a non-negative quantity never has negative
\* available stock, whatever integer quantities the calls are given.
C2_NonNegativeStock ==
    \A ref \in 1..Len(heap) :
        initial[ref] >= 0 => StockOf(heap, ref) >= 0

\* C2 witness: a successful add_to_cart has taken the whole stock of a
\* product
C2_Witness ==
    /\ Succeeded(op, "add_to_cart")
    /\ initial[catalog[op.pid]] > 0
    /\ StockOf(heap, catalog[op.pid]) = 0

\* C3: every line in the cart has a quantity >= 1 (violated:
\* update_cart_quantity stores a zero or negative new_qty as it is).
C3_PositiveLineQuantity ==
    \A pid \in DOMAIN cart : cart[pid].quantity >= 1

\* C4: add_to_cart on an identifier absent from the catalog, or with a
\* quantity above the available stock, returns False and changes nothing.
C4_AddToCartFailure ==
    [][(/\ op'.name = "add_to_cart"
        /\ \/ op'.pid \notin DOMAIN catalog
           \/ op'.qty > StockOf(heap, catalog[op'.pid]))
       => /\ op'.result = FALSE
          /\ UNCHANGED <<heap, catalog, cart, next_id>>]_vars

\* C4 witness: add_to_cart has failed on a catalogued product for a quantity
\* above its stock
C4_Witness ==
    /\ Failed(op, "add_to_cart")
    /\ op.pid \in DOMAIN catalog
    /\ op.qty > StockOf(heap, catalog[op.pid])
    /\ StockOf(heap, catalog[op.pid]) > 0

\* C5: a successful add_to_cart deducts exactly qty from the stock and leaves
\* one line for the identifier, of quantity qty more than before (qty when
\* there was no line); no other line appears.
C5_AddToCartSuccess ==
    [][Succeeded(op', "add_to_cart")
       => LET pid == op'.pid
              qty == op'.qty
          IN  /\ pid \in DOMAIN catalog
              /\ StockOf(heap', catalog[pid])
                     = StockOf(heap, catalog[pid]) - qty
              /\ DOMAIN cart' = DOMAIN cart \cup {pid}
              /\ cart'[pid].quantity = LineQty(cart, pid) + qty]_vars

\* C5 witness: a second successful add_to_cart on a line: the line holds more
\* than the call added
C5_Witness ==
    /\ Succeeded(op, "add_to_cart")
    /\ cart[op.pid].quantity > op.qty
    /\ Cardinality(DOMAIN cart) = 1


\* C6: update_cart_quantity on an identifier without a line, or for an
\* increase (diff = new_qty - current quantity > 0) above the available stock
\* of the line's product, returns False and changes nothing.
C6_UpdateFailure ==
    [][(/\ op'.name = "update_cart_quantity"
        /\ \/ op'.pid \notin DOMAIN cart
           \/ LET diff == op'.qty - cart[op'.pid].quantity
              IN  /\ diff > 0
                  /\ diff > StockOf(heap, cart[op'.pid].product))
       => /\ op'.result = FALSE
          /\ UNCHANGED <<heap, catalog, cart, next_id>>]_vars

\* C6 witness: update_cart_quantity has failed on a line for an increase
\* above the stock, which is not empty
C6_Witness ==
    /\ Failed(op, "update_cart_quantity")
    /\ op.pid \in DOMAIN cart
    /\ op.qty - cart[op.pid].quantity > StockOf(heap, cart[op.pid].product)
    /\ StockOf(heap, cart[op.pid].product) > 0

\* C7: a successful update_cart_quantity sets the line to new_qty and changes
\* the stock by (current quantity - new_qty); on a line, a call with
\* diff <= 0 always succeeds.
C7_UpdateSuccess ==
    [][op'.name = "update_cart_quantity"
       => LET pid == op'.pid
              new_qty == op'.qty
          IN  /\ op'.result = TRUE
                 => /\ pid \in DOMAIN cart
                    /\ DOMAIN cart' = DOMAIN cart
                    /\ cart'[pid].quantity = new_qty
                    /\ StockOf(heap', cart[pid].product)
                         = StockOf(heap, cart[pid].product)
                             + (cart[pid].quantity - new_qty)
              /\ (pid \in DOMAIN cart /\ new_qty <= cart[pid].quantity)
                 => op'.result = TRUE]_vars

\* C7 witness: a successful update_cart_quantity has left a line of new_qty
\* units, the rest of the product's first stock still available
C7_Witness ==
    /\ Succeeded(op, "update_cart_quantity")
    /\ cart[op.pid].quantity = op.qty
    /\ op.qty >= 1
    /\ StockOf(heap, cart[op.pid].product) >= 1
    /\ StockOf(heap, cart[op.pid].product) + op.qty
         = initial[cart[op.pid].product]

\* C8: remove_from_cart on an identifier with a line returns True, adds the
\* line's quantity to the stock and deletes the line; on an identifier
\* without a line (as right after a successful removal of it) it returns
\* False and changes nothing.
C8_RemoveFromCart ==
    [][op'.name = "remove_from_cart"
       => LET pid == op'.pid
          IN  /\ IF pid \in DOMAIN cart
                 THEN /\ op'.result = TRUE
                      /\ pid \in DOMAIN catalog
                      /\ StockOf(heap', catalog[pid])
                           = StockOf(heap, catalog[pid]) + cart[pid].quantity
                      /\ DOMAIN cart' = DOMAIN cart \ {pid}
                 ELSE /\ op'.result = FALSE
                      /\ UNCHANGED <<heap, catalog, cart, next_id>>
              /\ (Succeeded(op, "remove_from_cart") /\ op.pid = pid)
                 => /\ op'.result = FALSE
                    /\ UNCHANGED <<heap, catalog, cart, next_id>>]_vars

\* C8 witness: a successful remove_from_cart has brought a product back to
\* the stock it was created with, while another line stays in the cart
C8_Witness ==
    /\ Succeeded(op, "remove_from_cart")
    /\ op.pid \notin DOMAIN cart
    /\ initial[catalog[op.pid]] > 0
    /\ StockOf(heap, catalog[op.pid]) = initial[catalog[op.pid]]
    /\ DOMAIN cart # {}

\* C9: clear_cart leaves no line in the cart and changes no stock, nor the
\* catalog, nor the identifier counter.
C9_ClearCart ==
    [][op'.name = "clear_cart"
       => /\ DOMAIN cart' = {}
          /\ UNCHANGED <<heap, catalog, next_id>>]_vars

\* C9 witness: after clear_cart the cart is empty and a product is left with
\* less stock than it was created with
C9_Witness ==
    /\ op.name = "clear_cart"
    /\ DOMAIN cart = {}
    /\ \E ref \in 1..Len(heap) :
           /\ initial[ref] > 0
           /\ StockOf(heap, ref) < initial[ref]

\* the price of the referenced product times the quantity, 0 without a line
LineValue(pid) ==
    IF pid \in DOMAIN cart
    THEN heap[cart[pid].product].price * cart[pid].quantity
    ELSE 0

ExpectedTotal ==
    LET ids == [n \in 1..MaxProducts |-> FormatProductId(n)]
        Partial[n \in 0..MaxProducts] ==
            IF n = 0 THEN 0 ELSE Partial[n - 1] + LineValue(ids[n])
    IN  Partial[MaxProducts] + LineValue("NOPE")

\* C10: get_cart_total returns the sum over the cart lines of unit price
\* times quantity, 0 for an empty cart, and changes no state.
C10_CartTotal ==
    [][op'.name = "get_cart_total"
       => /\ op'.result = ExpectedTotal
          /\ DOMAIN cart = {} => op'.result = 0
          /\ UNCHANGED <<heap, catalog, cart, next_id>>]_vars

\* C10 witness: get_cart_total has returned the total of a cart of two lines
\* with different prices
C10_Witness ==
    /\ op.name = "get_cart_total"
    /\ Cardinality(DOMAIN cart) = 2
    /\ \A pid \in DOMAIN cart : cart[pid].quantity > 0
    /\ \E p, q \in DOMAIN cart :
           heap[cart[p].product].price # heap[cart[q].product].price
    /\ op.result = ExpectedTotal
    /\ op.result > 0

\* the identifier the n-th add_product call is to return, for n < 1000
ExpectedId(n) ==
    LET d == <<"0", "1", "2", "3", "4", "5", "6", "7", "8", "9">>
    IN  "PID" \o d[(n \div 100) + 1] \o d[((n \div 10) % 10) + 1]
              \o d[(n % 10) + 1]

\* C11: add_product returns an identifier that was not in the catalog and
\* adds that one entry; the n-th call returns "PID" and n padded with zeros
\* to three digits; no call removes a catalog entry or changes the name or
\* the price of a catalogued product.
C11_FreshIdentifiers ==
    [][/\ op'.name = "add_product"
          => /\ op'.result \notin DOMAIN catalog
             /\ DOMAIN catalog' = DOMAIN catalog \cup {op'.result}
             /\ op'.result = ExpectedId(Len(initial) + 1)
             /\ heap'[catalog'[op'.result]].product_id = op'.result
       /\ op'.name # "add_product" => DOMAIN catalog' = DOMAIN catalog
       /\ \A pid \in DOMAIN catalog :
              /\ pid \in DOMAIN catalog'
              /\ heap'[catalog'[pid]].name = heap[catalog[pid]].name
              /\ heap'[catalog'[pid]].price = heap[catalog[pid]].price
              /\ heap'[catalog'[pid]].product_id = pid]_vars

\* C11 witness: the second add_product has returned "PID002" and the catalog
\* holds both products
C11_Witness ==
    /\ op.name = "add_product"
    /\ op.result = "PID002"
    /\ DOMAIN catalog = {"PID001", "PID002"}
    /\ heap[catalog["PID001"]].name # heap[catalog["PID002"]].name

\* C12: after checkout the cart holds no line (violated: checkout returns
\* at a zero total, which a cart of free products or of zero quantities has).
C12_CheckoutClears ==
    op.name = "checkout" => DOMAIN cart = {}

\* C13: checkout at a zero total reports the empty cart and leaves cart and
\* stock unchanged; at a non-zero total it shows the payment prompt with that
\* total and clears the cart, and no stock changes.
C13_CheckoutOutcome ==
    [][op'.name = "checkout"
       => /\ op'.qty = ExpectedTotal
          /\ IF ExpectedTotal = 0
             THEN /\ op'.result = "Cart is empty."
                  /\ cart' = cart
             ELSE /\ op'.result = "Payment"
                  /\ DOMAIN cart' = {}
          /\ UNCHANGED <<heap, catalog, next_id>>]_vars

\* C13 witness: checkout has shown the payment prompt with a total above
\* zero and cleared the cart; the units paid for are gone from the stock
C13_Witness ==
    /\ op.name = "checkout"
    /\ op.result = "Payment"
    /\ op.qty > 0
    /\ DOMAIN cart = {}
    /\ \E ref \in 1..Len(heap) :
           initial[ref] > 0 /\ StockOf(heap, ref) < initial[ref]

\* the state of the cart manager: catalog with its products, cart, counter
Manager ==
    [heap |-> heap, catalog |-> catalog, cart |-> cart, next_id |-> next_id]

Pen(stock) ==
    [product_id |-> "PID001", name |-> "Pen", price |-> 10,
     quantity_available |-> stock]

Book(stock) ==
    [product_id |-> "PID002", name |-> "Book", price |-> 50,
     quantity_available |-> stock]

\* the states of the scenario: fresh, with the Pen, with Pen and Book, and
\* with Pen and Book and a line of `line` pens, `stock` pens left
Fresh ==
    [heap |-> <<>>, catalog |-> <<>>, cart |-> <<>>, next_id |-> 1]

WithPen ==
    [heap |-> <<Pen(5)>>, catalog |-> [pid \in {"PID001"} |-> 1],
     cart |-> <<>>, next_id |-> 2]

WithBoth(stock) ==
    [heap |-> <<Pen(stock), Book(2)>>,
     catalog |-> [pid \in {"PID001", "PID002"} |->
                     IF pid = "PID001" THEN 1 ELSE 2],
     cart |-> <<>>, next_id |-> 3]

WithLine(stock, line) ==
    [WithBoth(stock) EXCEPT
        !.cart = [pid \in {"PID001"} |-> [product |-> 1, quantity |-> line]]]

Total == get_cart_total(heap, cart)

\* C14: on a fresh cart manager the scenario runs as stated: the two
\* add_product calls return "PID001" and "PID002"; add_to_cart("PID001", 3)
\* succeeds with stock 2 and total 30; add_to_cart("PID001", 5) fails with
\* the cart unchanged; update_cart_quantity("PID001", 1) succeeds with stock
\* 4 and total 10; remove_from_cart("PID001") succeeds with stock 5 and an
\* empty cart; checkout reports the empty cart.
C14_Scenario ==
    [][/\ (/\ Manager = Fresh
           /\ op'.name = "add_product" /\ op'.product_name = "Pen"
           /\ op'.price = 10 /\ op'.qty = 5)
          => op'.result = "PID001" /\ Manager' = WithPen
       /\ (/\ Manager = WithPen
           /\ op'.name = "add_product" /\ op'.product_name = "Book"
           /\ op'.price = 50 /\ op'.qty = 2)
          => op'.result = "PID002" /\ Manager' = WithBoth(5)
       /\ (/\ Manager = WithBoth(5)
           /\ op'.name = "add_to_cart" /\ op'.pid = "PID001" /\ op'.qty = 3)
          => /\ op'.result = TRUE
             /\ Manager' = WithLine(2, 3)
             /\ Total' = 30
       /\ (/\ Manager = WithLine(2, 3)
           /\ op'.name = "add_to_cart" /\ op'.pid = "PID001" /\ op'.qty = 5)
          => op'.result = FALSE /\ Manager' = WithLine(2, 3)
       /\ (/\ Manager = WithLine(2, 3)
           /\ op'.name = "update_cart_quantity"
           /\ op'.pid = "PID001" /\ op'.qty = 1)
          => /\ op'.result = TRUE
             /\ Manager' = WithLine(4, 1)
             /\ Total' = 10
       /\ (/\ Manager = WithLine(4, 1)
           /\ op'.name = "remove_from_cart" /\ op'.pid = "PID001")
          => op'.result = TRUE /\ Manager' = WithBoth(5)
       /\ (Manager = WithBoth(5) /\ op'.name = "checkout")
          => op'.result = "Cart is empty." /\ Manager' = WithBoth(5)]_vars

\* C14 witness: the scenario has reached its update: one pen in the cart,
\* four in stock, the two books untouched
C14_Witness ==
    /\ Manager = WithLine(4, 1)
    /\ Succeeded(op, "update_cart_quantity")
    /\ op.pid = "PID001" /\ op.qty = 1
    /\ initial = <<5, 2>>

\* C15: decrease_quantity, as add_to_cart calls it on a catalogued product,
\* succeeds and deducts exactly the amount if and only if
\* 0 < amount <= available stock; for any other amount (zero, negative, above
\* the stock) the call fails and nothing changes.
C15_DecreaseQuantity ==
    [][(op'.name = "add_to_cart" /\ op'.pid \in DOMAIN catalog)
       => LET stock == StockOf(heap, catalog[op'.pid])
              amount == op'.qty
          IN  IF 0 < amount /\ amount <= stock
              THEN /\ op'.result = TRUE
                   /\ StockOf(heap', catalog[op'.pid]) = stock - amount
              ELSE /\ op'.result = FALSE
                   /\ UNCHANGED <<heap, catalog, cart, next_id>>]_vars

\* C15 witness: add_to_cart has failed for a zero or negative quantity on a
\* catalogued product that has stock
C15_Witness ==
    /\ Failed(op, "add_to_cart")
    /\ op.pid \in DOMAIN catalog
    /\ op.qty <= 0
    /\ StockOf(heap, catalog[op.pid]) > 0

\* C16: every identifier with a cart line is a catalog identifier and the
\* line references the catalog's Product of that identifier.
C16_LinesInCatalog ==
    \A pid \in DOMAIN cart :
        /\ pid \in DOMAIN catalog
        /\ cart[pid].product = catalog[pid]
        /\ heap[cart[pid].product].product_id = pid

\* C16 witness: both products have a line, the second just added
C16_Witness ==
    /\ Succeeded(op, "add_to_cart")
    /\ op.pid = "PID002"
    /\ DOMAIN cart = {"PID001", "PID002"}

CartCalls == {"add_to_cart", "update_cart_quantity", "remove_from_cart"}

\* C17: add_to_cart, update_cart_quantity and remove_from_cart on an
\* identifier leave every other product, every other cart line, the catalog
\* identifiers and the identifier counter unchanged.
C17_Isolation ==
    [][op'.name \in CartCalls
       => LET pid == op'.pid
          IN  /\ Len(heap') = Len(heap)
              /\ \A ref \in 1..Len(heap) :
                     (pid \notin DOMAIN catalog \/ ref # catalog[pid])
                     => heap'[ref] = heap[ref]
              /\ DOMAIN cart' \ {pid} = DOMAIN cart \ {pid}
              /\ \A other \in DOMAIN cart \ {pid} : cart'[other] = cart[other]
              /\ catalog' = catalog
              /\ next_id' = next_id]_vars

\* C17 witness: a line has been removed while the other product keeps its
\* line and its reserved stock
C17_Witness ==
    /\ Succeeded(op, "remove_from_cart")
    /\ Cardinality(DOMAIN catalog) = 2
    /\ \E other \in DOMAIN cart :
           /\ other # op.pid
           /\ cart[other].quantity > 0
           /\ StockOf(heap, catalog[other]) < initial[catalog[other]]

\* C18: a successful add_to_cart on an identifier without a line, followed
\* at once by remove_from_cart of that identifier, brings every stock and
\* the cart back to what they were before the add_to_cart.
C18_AddRemoveRoundTrip ==
    [][(/\ Succeeded(op, "add_to_cart")
        /\ op.pid \notin DOMAIN op.before.cart
        /\ op'.name = "remove_from_cart"
        /\ op'.pid = op.pid)
       => /\ op'.result = TRUE
          /\ heap' = op.before.heap
          /\ cart' = op.before.cart
          /\ UNCHANGED <<catalog, next_id>>]_vars

\* C18 witness: add_to_cart has just put two units of a product without a
\* line into a cart that holds another line; remove_from_cart comes next
C18_Witness ==
    /\ Succeeded(op, "add_to_cart")
    /\ op.qty = 2
    /\ op.pid \notin DOMAIN op.before.cart
    /\ DOMAIN op.before.cart # {}
    /\ cart[op.pid].quantity = 2

====
